---- MODULE Spec2Model ----
(***************************************************************************)
(* The per-connection judge session of server/libs/handler.py              *)
(* (class JudgeHandler): handshake, dispatch of one submission, the        *)
(* inbound dispatch table, the health monitor thread and disconnect.       *)
(*                                                                         *)
(* The session object is the record Self; every method of JudgeHandler is  *)
(* an operator from a session record (and its arguments) to the session    *)
(* record the method leaves behind.  The field exc of the result says that *)
(* the method raised an exception at that point (the fields hold what had  *)
(* been assigned before the raise).                                        *)
(***************************************************************************)
EXTENDS Naturals, Integers, Sequences, FiniteSets

VARIABLES
    conn,               \* the socket: "open" | "closed"
    loop,               \* the request handler: "new" | "serving" | "disconnected" | "crashed"
    timeout,            \* self.timeout (0 = not set)
    _working,           \* self._working: PyFalse or the id given to submit
    _no_response_job,   \* self._no_response_job: 0 = None, n = the n-th Timer object
    _problems,          \* self._problems
    problems,           \* self.problems
    executors,          \* self.executors
    latency,            \* self.latency: <<>> = None, <<v>> = v in fixed point (Scale)
    time_delta,         \* self.time_delta: <<>> = None, <<v>> = v in fixed point
    load,               \* self.load
    name,               \* self.name
    batch_id,           \* self.batch_id
    in_batch,           \* self.in_batch
    _stop_ping,         \* self._stop_ping (threading.Event): is it set
    _ping_average,      \* self._ping_average, deque(maxlen=6)
    _time_delta,        \* self._time_delta, deque(maxlen=6)
    threads,            \* the threads that were start()ed, in start order
    sent,               \* the messages written to the socket, in order
    lastlog,            \* the last record given to json_log, or to logger as a
                        \* warning or an error
    connectedCalls,     \* number of calls of the hook _connected()
    disconnectedCalls,  \* number of calls of the hook _disconnected()
    postUpdateCalls,    \* number of calls of the hook _post_update_submission()
    acked               \* observer: what was acknowledged since the last submit:
                        \* "none", "wrong" (another id only) or "matched"

vars == <<conn, loop, timeout, _working, _no_response_job, _problems, problems,
          executors, latency, time_delta, load, name, batch_id, in_batch,
          _stop_ping, _ping_average, _time_delta, threads, sent, lastlog,
          connectedCalls, disconnectedCalls, postUpdateCalls, acked>>

-----------------------------------------------------------------------------
(* Bounds of the model.                                                    *)

MaxSubmits == 2          \* calls of submit
MaxHandshakes == 1       \* handshakes that succeed
MaxSent == 2             \* messages written to the socket, and one ping more
MaxPingResponses == 1    \* ping-response messages handled

-----------------------------------------------------------------------------
(* Python values.                                                          *)

None == "<None>"
PyFalse == "<False>"
InitialLoad == 999999                      \* stands for 1e100
Scale == 2 * 60                            \* fixed point: one time unit = Scale
WindowLen == 6                             \* deque(maxlen=6)
InitialTimeout == 15
UPDATE_RATE_LIMIT == 5
LongPollTimeout == 60

Truthy(x) == x \notin {PyFalse, None, ""}  \* bool(x)

Has(packet, field) == field \in DOMAIN packet

SubmissionIds == {"", "42", "43"}
JudgeIds == {"judge1", None}               \* None: "id": null

GoodProblems == << <<"aplusb", "1">> >>
BadProblems == << <<"aplusb">> >>          \* an element that is no pair
Unhashable == "<list>"                     \* a JSON array or object, where a key is due
UnhashableProblems == << <<Unhashable, "1">> >>
Executors == [PY3 |-> "3.11"]

HandshakePackets ==
    {[name |-> "handshake", id |-> i, key |-> "k", problems |-> GoodProblems,
      executors |-> Executors] : i \in JudgeIds}
    \cup {[name |-> "handshake", id |-> "judge1", key |-> "k", problems |-> BadProblems,
           executors |-> Executors],
          [name |-> "handshake", id |-> "judge1", key |-> "k",
           problems |-> UnhashableProblems, executors |-> Executors],
          [name |-> "handshake", id |-> "judge1", problems |-> GoodProblems, executors |-> Executors],
          [name |-> "handshake", key |-> "k", problems |-> GoodProblems, executors |-> Executors],
          [name |-> "handshake", id |-> "judge1", key |-> "k", executors |-> Executors],
          [name |-> "handshake", id |-> "judge1", key |-> "k", problems |-> GoodProblems]}

TerminalNames == {"grading-end", "compile-error", "internal-error", "submission-terminated"}

SubmissionPackets ==
    {[name |-> n, submission_id |-> i] :
        n \in {"grading-end", "submission-acknowledged"}, i \in SubmissionIds}
    \cup {[name |-> n, submission_id |-> "42"] :
        n \in (TerminalNames \ {"grading-end"})
              \cup {"grading-begin", "compile-message", "batch-begin", "batch-end",
                    "test-case-status"}}
    \cup {[name |-> "grading-begin"], [name |-> "supported-problems"]}

Ends == {1}                                \* values of time.time() at a ping-response
PingResponsePackets ==
    {[name |-> "ping-response", when |-> 0, time |-> 1, load |-> 0],
     [name |-> "ping-response", when |-> 0, time |-> 1],
     [name |-> "ping-response", time |-> 1, load |-> 0]}

UnknownPackets ==
    {[name |-> "no-such-message"], [id |-> "judge1"], [name |-> Unhashable]}

Obj(p) == [json |-> "object", value |-> p]

(* The raw data on_packet is given: text that is no JSON, JSON that is a   *)
(* number or null, a JSON list, or a JSON object.                          *)
Inbound ==
    {[json |-> "invalid"], [json |-> "scalar"],
     [json |-> "list", value |-> <<>>], [json |-> "list", value |-> <<"name">>]}
    \cup {[json |-> "object", value |-> p] :
            p \in HandshakePackets \cup SubmissionPackets \cup PingResponsePackets
                  \cup UnknownPackets}

-----------------------------------------------------------------------------
(* The session object.                                                     *)

Self ==
    [conn |-> conn, timeout |-> timeout, _working |-> _working,
     _no_response_job |-> _no_response_job, _problems |-> _problems,
     problems |-> problems, executors |-> executors, latency |-> latency,
     time_delta |-> time_delta, load |-> load, name |-> name,
     batch_id |-> batch_id, in_batch |-> in_batch, _stop_ping |-> _stop_ping,
     _ping_average |-> _ping_average, _time_delta |-> _time_delta,
     threads |-> threads, sent |-> sent, lastlog |-> lastlog,
     connectedCalls |-> connectedCalls, disconnectedCalls |-> disconnectedCalls,
     postUpdateCalls |-> postUpdateCalls, exc |-> FALSE]

Commit(s) ==
    /\ conn' = s.conn
    /\ timeout' = s.timeout
    /\ _working' = s._working
    /\ _no_response_job' = s._no_response_job
    /\ _problems' = s._problems
    /\ problems' = s.problems
    /\ executors' = s.executors
    /\ latency' = s.latency
    /\ time_delta' = s.time_delta
    /\ load' = s.load
    /\ name' = s.name
    /\ batch_id' = s.batch_id
    /\ in_batch' = s.in_batch
    /\ _stop_ping' = s._stop_ping
    /\ _ping_average' = s._ping_average
    /\ _time_delta' = s._time_delta
    /\ threads' = s.threads
    /\ sent' = s.sent
    /\ lastlog' = s.lastlog
    /\ connectedCalls' = s.connectedCalls
    /\ disconnectedCalls' = s.disconnectedCalls
    /\ postUpdateCalls' = s.postUpdateCalls

Raise(s) == [s EXCEPT !.exc = TRUE]

Log(s, record) == [s EXCEPT !.lastlog = record]

(* ZlibPacketHandler.close: shut the socket down.                          *)
close(s) == [s EXCEPT !.conn = "closed"]

(* JudgeHandler.send: write one message; writing to a socket that was shut *)
(* down raises.                                                            *)
send(s, message) ==
    IF s.conn = "closed" THEN Raise(s) ELSE [s EXCEPT !.sent = Append(@, message)]

(* JudgeHandler.__init__, on an accepted connection.                       *)
New ==
    [conn |-> "open", timeout |-> 0, _working |-> PyFalse, _no_response_job |-> 0,
     _problems |-> <<>>, problems |-> <<>>, executors |-> <<>>, latency |-> <<>>,
     time_delta |-> <<>>, load |-> InitialLoad, name |-> None, batch_id |-> None,
     in_batch |-> FALSE, _stop_ping |-> FALSE, _ping_average |-> <<>>,
     _time_delta |-> <<>>, threads |-> <<>>, sent |-> <<>>, lastlog |-> None,
     connectedCalls |-> 0, disconnectedCalls |-> 0, postUpdateCalls |-> 0,
     exc |-> FALSE]

Init ==
    /\ conn = New.conn
    /\ timeout = New.timeout
    /\ _working = New._working
    /\ _no_response_job = New._no_response_job
    /\ _problems = New._problems
    /\ problems = New.problems
    /\ executors = New.executors
    /\ latency = New.latency
    /\ time_delta = New.time_delta
    /\ load = New.load
    /\ name = New.name
    /\ batch_id = New.batch_id
    /\ in_batch = New.in_batch
    /\ _stop_ping = New._stop_ping
    /\ _ping_average = New._ping_average
    /\ _time_delta = New._time_delta
    /\ threads = New.threads
    /\ sent = New.sent
    /\ lastlog = New.lastlog
    /\ connectedCalls = New.connectedCalls
    /\ disconnectedCalls = New.disconnectedCalls
    /\ postUpdateCalls = New.postUpdateCalls
    /\ loop = "new"
    /\ acked = "none"

-----------------------------------------------------------------------------
(* Hooks of JudgeHandler.                                                  *)

_authenticate(id, key) == TRUE

_connected(s) == [s EXCEPT !.connectedCalls = @ + 1]

_disconnected(s) == [s EXCEPT !.disconnectedCalls = @ + 1]

_update_ping(s) == s

get_related_submission_data(submission) == None

(* The result sink: the hook that is given every update of a submission.   *)
_post_update_submission(s, id, state, done) == [s EXCEPT !.postUpdateCalls = @ + 1]

-----------------------------------------------------------------------------
(* Handshake.                                                              *)

(* dict(ps) goes through: every element has two places (else ValueError)  *)
(* and its first place can be a key (else TypeError: unhashable type).     *)
IsPairs(ps) == \A i \in DOMAIN ps : Len(ps[i]) = 2 /\ ps[i][1] # Unhashable

(* dict(list of pairs): a later pair with the same key wins.               *)
dict(ps) ==
    [k \in {ps[i][1] : i \in DOMAIN ps} |->
        LET last == CHOOSE i \in DOMAIN ps :
                        /\ ps[i][1] = k
                        /\ \A j \in DOMAIN ps : ps[j][1] = k => j <= i
        IN ps[last][2]]

PingThread == [target |-> "_ping_thread", pc |-> "ping", job |-> 0]

TimerThread(n) == [target |-> "_kill_if_no_response", pc |-> "sleep", job |-> n]

(* A faulty variant of on_handshake: the key field is not tested before   *)
(* it is read.                                                             *)
on_handshake_key_unchecked(s, packet) ==
    IF ~Has(packet, "id")
    THEN close(Log(s, "Malformed handshake"))
    ELSE IF ~Has(packet, "key") THEN Raise(s)
    ELSE IF ~Has(packet, "problems") THEN Raise([s EXCEPT !.timeout = LongPollTimeout])
    ELSE IF ~IsPairs(packet.problems)
    THEN Raise([s EXCEPT !.timeout = LongPollTimeout, !._problems = packet.problems])
    ELSE IF ~Has(packet, "executors")
    THEN Raise([s EXCEPT !.timeout = LongPollTimeout, !._problems = packet.problems,
                         !.problems = dict(packet.problems)])
    ELSE LET s5 == send([s EXCEPT !.timeout = LongPollTimeout,
                                  !._problems = packet.problems,
                                  !.problems = dict(packet.problems),
                                  !.executors = packet.executors,
                                  !.name = packet.id], "handshake-success")
         IN IF s5.exc THEN s5
            ELSE _connected([s5 EXCEPT !.threads = Append(@, PingThread)])

(* on_handshake up to and with Thread(...).start(): the session as the new *)
(* thread finds it.  The call of _connected() is still to come.            *)
on_handshake_started(s, packet) ==
    IF ~Has(packet, "id") \/ ~Has(packet, "key")
    THEN close(Log(s, "Malformed handshake"))
    ELSE IF ~_authenticate(packet.id, packet.key)
    THEN close(s)
    ELSE
      LET s1 == [s EXCEPT !.timeout = LongPollTimeout] IN
      IF ~Has(packet, "problems") THEN Raise(s1)                 \* KeyError
      ELSE
      LET s2 == [s1 EXCEPT !._problems = packet.problems] IN
      IF ~IsPairs(packet.problems) THEN Raise(s2)     \* ValueError, TypeError of dict()
      ELSE
      LET s3 == [s2 EXCEPT !.problems = dict(packet.problems)] IN
      IF ~Has(packet, "executors") THEN Raise(s3)                \* KeyError
      ELSE
      LET s4 == [s3 EXCEPT !.executors = packet.executors, !.name = packet.id]
          s5 == send(s4, "handshake-success")
      IN IF s5.exc THEN s5
         ELSE [s5 EXCEPT !.threads = Append(@, PingThread)]

(* on_handshake from its first line to its last, the new thread not having *)
(* run in between.                                                         *)
on_handshake(s, packet) ==
    LET r == on_handshake_started(s, packet) IN
    IF Len(r.threads) > Len(s.threads) THEN _connected(r) ELSE r

-----------------------------------------------------------------------------
(* Submission lifecycle handlers.                                          *)

on_grading_begin(s, packet) ==
    IF ~Has(packet, "submission_id") THEN Raise(s)               \* KeyError
    ELSE [s EXCEPT !.batch_id = None]

on_grading_end(s, packet) == s

on_compile_error(s, packet) == s

on_compile_message(s, packet) == s

on_internal_error(s, packet) == s

on_submission_terminated(s, packet) == s

on_batch_begin(s, packet) == s

on_batch_end(s, packet) == s

on_test_case(s, packet) == s

on_supported_problems(s, packet) == s

(* A faulty variant of on_submission_acknowledged: any acknowledgment      *)
(* drops the timer, whatever id it names.                                  *)
on_submission_acknowledged_any_id(s, packet) == [s EXCEPT !._no_response_job = 0]

on_submission_acknowledged(s, packet) == s

on_malformed(s, packet) == Log(s, "malformed json packet")

-----------------------------------------------------------------------------
(* Health monitor.                                                         *)

RECURSIVE Sum(_)
Sum(q) == IF q = <<>> THEN 0 ELSE Head(q) + Sum(Tail(q))

(* deque(maxlen=6).append                                                  *)
DequeAppend(q, x) ==
    IF Len(q) < WindowLen THEN Append(q, x) ELSE Append(Tail(q), x)

on_ping_response(s, packet, end) ==
    IF ~Has(packet, "when") THEN Raise(s)                        \* KeyError
    ELSE
    LET s1 == [s EXCEPT !._ping_average =
                   DequeAppend(@, (end - packet.when) * Scale)] IN
    IF ~Has(packet, "time") THEN Raise(s1)                       \* KeyError
    ELSE
    LET s2 == [s1 EXCEPT !._time_delta =
                   DequeAppend(@, ((end + packet.when) * Scale) \div 2
                                   - packet.time * Scale)]
        s3 == [s2 EXCEPT !.latency = <<Sum(s2._ping_average) \div Len(s2._ping_average)>>,
                         !.time_delta = <<Sum(s2._time_delta) \div Len(s2._time_delta)>>]
    IN IF ~Has(packet, "load") THEN Raise(s3)                    \* KeyError
       ELSE _update_ping([s3 EXCEPT !.load = packet.load])

ping(s) == send(s, "ping")

-----------------------------------------------------------------------------
(* The inbound dispatch table.                                             *)

handlers(s, packet, end) ==
    CASE packet.name = Unhashable -> Raise(s)                    \* TypeError of dict.get
      [] packet.name = "grading-begin" -> on_grading_begin(s, packet)
      [] packet.name = "grading-end" -> on_grading_end(s, packet)
      [] packet.name = "compile-error" -> on_compile_error(s, packet)
      [] packet.name = "compile-message" -> on_compile_message(s, packet)
      [] packet.name = "batch-begin" -> on_batch_begin(s, packet)
      [] packet.name = "batch-end" -> on_batch_end(s, packet)
      [] packet.name = "test-case-status" -> on_test_case(s, packet)
      [] packet.name = "internal-error" -> on_internal_error(s, packet)
      [] packet.name = "submission-terminated" -> on_submission_terminated(s, packet)
      [] packet.name = "submission-acknowledged" -> on_submission_acknowledged(s, packet)
      [] packet.name = "ping-response" -> on_ping_response(s, packet, end)
      [] packet.name = "supported-problems" -> on_supported_problems(s, packet)
      [] packet.name = "handshake" -> on_handshake(s, packet)
      [] OTHER -> on_malformed(s, packet)

InList(x, seq) == \E i \in DOMAIN seq : seq[i] = x

(* The body of the outer try of on_packet: json.loads, the test for the    *)
(* name field, and the call of the handler.                                *)
decode_and_dispatch(s, data, end) ==
    CASE data.json = "invalid" -> on_malformed(s, data)          \* json.loads: ValueError
      [] data.json = "scalar" -> Raise(s)                        \* 'name' not in 5: TypeError
      [] data.json = "list" ->
            IF ~InList("name", data.value) THEN on_malformed(s, data)
            ELSE Raise(s)                                        \* data['name']: TypeError
      [] data.json = "object" ->
            IF ~Has(data.value, "name") THEN on_malformed(s, data.value)
            ELSE handlers(s, data.value, end)

_packet_exception(s) == Log(s, "packet processing exception")

(* A faulty variant of on_packet: no outer try, the exception leaves       *)
(* on_packet.                                                              *)
on_packet_uncaught(s, data, end) == decode_and_dispatch(s, data, end)

on_packet(s, data, end) ==
    LET r == decode_and_dispatch(s, data, end) IN
    IF r.exc THEN [_packet_exception(r) EXCEPT !.exc = FALSE] ELSE r

-----------------------------------------------------------------------------
(* Calls made by the scheduler.                                            *)

(* submit(id, problem, language, source).  The Timer is created and never  *)
(* started; the message is built, and data.time read, before send is       *)
(* called.                                                                 *)
submit(s, id) ==
    LET data == get_related_submission_data(id)
        s1 == [s EXCEPT !._working = id,
                        !._no_response_job = s._no_response_job + 1]
    IN IF data = None THEN Raise(s1)                             \* AttributeError
       ELSE send(s1, <<"submission-request", id>>)

disconnect(s, force) ==
    IF force THEN close(s) ELSE send(s, "disconnect")

abort(s) == send(s, "terminate-submission")

on_timeout(s) == IF Truthy(s.name) THEN Log(s, "Judge seems dead") ELSE s

(* The property working: bool(self._working).                              *)
working(s) == Truthy(s._working)

(* self._working or None                                                   *)
get_current_submission(s) == IF Truthy(s._working) THEN s._working ELSE None

on_connect(s) == Log([s EXCEPT !.timeout = InitialTimeout], "connect")

on_disconnect(s) ==
    LET s1 == [s EXCEPT !._stop_ping = TRUE]
        s2 == IF s1.name # None THEN _disconnected(s1) ELSE s1
    IN Log(s2, "disconnect")

_kill_if_no_response(s) == close(Log(s, "Judge failed to acknowledge submission"))

Count(seq, x) == Cardinality({i \in DOMAIN seq : seq[i] = x})

(* A faulty variant of _ping_thread: after a ping that raised, the loop    *)
(* logs, closes and goes on pinging.                                       *)
_ping_thread_keeps_pinging(s, i) ==
    IF s.threads[i].pc = "ping"
    THEN LET r == ping(s) IN
         IF r.exc
         THEN [close(Log(r, "Ping error")) EXCEPT !.exc = FALSE]
         ELSE [r EXCEPT !.threads[i].pc = "wait"]
    ELSE IF s._stop_ping
         THEN [s EXCEPT !.threads[i].pc = "done"]
         ELSE [s EXCEPT !.threads[i].pc = "ping"]

(* One pass of the loop of _ping_thread, for the thread at place i of      *)
(* threads: at "ping" it calls self.ping(), at "wait" it returns from      *)
(* self._stop_ping.wait(10).                                               *)
_ping_thread(s, i) ==
    IF s.threads[i].pc = "ping"
    THEN LET r == ping(s) IN
         IF r.exc
         THEN [close(Log(r, "Ping error")) EXCEPT !.threads[i].pc = "failed", !.exc = FALSE]
         ELSE [r EXCEPT !.threads[i].pc = "wait"]
    ELSE IF s._stop_ping
         THEN [s EXCEPT !.threads[i].pc = "done"]
         ELSE [s EXCEPT !.threads[i].pc = "ping"]

(* threading.Thread.run: what the thread at place i does next.             *)
run(s, i) ==
    IF s.threads[i].target = "_ping_thread" THEN _ping_thread(s, i)
    ELSE [_kill_if_no_response(s) EXCEPT !.threads[i].pc = "fired"]

(* A thread can always take its next step: the wait of ten seconds runs    *)
(* out or is cut short by the stop signal, and a ping on a closed          *)
(* connection raises.  Only the pings written on an open connection are    *)
(* bounded: one ping fits after the last message the bound lets the        *)
(* others write.                                                           *)
Runnable(i) ==
    \/ threads[i].pc \in {"sleep", "wait"}
    \/ threads[i].pc = "ping" /\ (conn = "closed" \/ Len(sent) <= MaxSent)

-----------------------------------------------------------------------------
(* The actions.                                                            *)

Registered == connectedCalls > 0 /\ loop \in {"serving", "connecting"}

Connect ==
    /\ loop = "new"
    /\ loop' = "serving"
    /\ Commit(on_connect(Self))
    /\ UNCHANGED acked

IsAck(data) ==
    /\ data.json = "object"
    /\ Has(data.value, "name")
    /\ data.value.name = "submission-acknowledged"
    /\ Has(data.value, "submission_id")

(* The message loop reads one message and gives it to on_packet.  A       *)
(* handshake that starts the health monitor thread is left at that point,  *)
(* loop = "connecting": the thread runs from there on, and the rest of     *)
(* on_handshake is the step Connected.  Every other message is handled in  *)
(* one step.                                                               *)
Receive(data, end) ==
    /\ loop = "serving"
    /\ conn = "open"
    /\ LET whole == on_packet(Self, data, end)
           starts == Len(whole.threads) > Len(threads)
           r == IF starts THEN on_handshake_started(Self, data.value) ELSE whole
       IN
        /\ starts =>
                /\ connectedCalls < MaxHandshakes
                /\ Len(r.sent) < MaxSent
        /\ Len(r._ping_average) <= MaxPingResponses
        /\ Commit(r)
        /\ loop' = IF starts THEN "connecting"
                   ELSE IF r.exc THEN "crashed" ELSE loop
    /\ acked' = IF IsAck(data) /\ Truthy(_working) /\ acked # "matched"
                THEN IF data.value.submission_id = _working THEN "matched" ELSE "wrong"
                ELSE acked

(* on_handshake after Thread(...).start(): _connected(), and the handler   *)
(* returns to the message loop.                                            *)
Connected ==
    /\ loop = "connecting"
    /\ loop' = "serving"
    /\ Commit(_connected(Self))
    /\ UNCHANGED acked

(* The read of the message loop times out: on_timeout().                   *)
Timeout ==
    /\ loop = "serving"
    /\ conn = "open"
    /\ Commit(on_timeout(Self))
    /\ UNCHANGED <<loop, acked>>

Submit(id) ==
    /\ Registered
    /\ _no_response_job < MaxSubmits
    /\ Commit(submit(Self, id))
    /\ acked' = "none"
    /\ UNCHANGED loop

Disconnect(force) ==
    /\ Registered
    /\ force \/ conn = "closed" \/ Len(sent) < MaxSent
    /\ Commit(disconnect(Self, force))
    /\ UNCHANGED <<loop, acked>>

Abort ==
    /\ Registered
    /\ conn = "closed" \/ Len(sent) < MaxSent
    /\ Commit(abort(Self))
    /\ UNCHANGED <<loop, acked>>

RunThread(i) ==
    /\ Runnable(i)
    /\ Commit(run(Self, i))
    /\ UNCHANGED <<loop, acked>>

(* The peer closes the connection or drops off the network, or the         *)
(* transport closes it after a timeout.                                    *)
PeerClose ==
    /\ loop \in {"serving", "connecting"}
    /\ conn = "open"
    /\ Commit(close(Self))
    /\ UNCHANGED <<loop, acked>>

(* The message loop finds the socket closed and ends: on_disconnect().     *)
LoopExit ==
    /\ loop = "serving"
    /\ conn = "closed"
    /\ loop' = "disconnected"
    /\ Commit(on_disconnect(Self))
    /\ UNCHANGED acked

(* time.time() is read by on_ping_response alone.                          *)
Clock(data) ==
    IF data.json = "object" /\ Has(data.value, "name") /\ data.value.name = "ping-response"
    THEN Ends ELSE {0}

Next ==
    \/ Connect
    \/ \E data \in Inbound : \E end \in Clock(data) : Receive(data, end)
    \/ Connected
    \/ Timeout
    \/ \E id \in SubmissionIds : Submit(id)
    \/ \E force \in BOOLEAN : Disconnect(force)
    \/ Abort
    \/ \E i \in DOMAIN threads : RunThread(i)
    \/ PeerClose
    \/ LoopExit

Spec == Init /\ [][Next]_vars

(* Threads that were started get to run, a handler that is running goes   *)
(* on, and a message loop whose socket is closed ends.  Nothing obliges    *)
(* the peer or the scheduler to act.                                       *)
FairSpec ==
    /\ Spec
    /\ WF_vars(\E i \in DOMAIN threads : RunThread(i))
    /\ WF_vars(Connected)
    /\ WF_vars(LoopExit)

(* The health monitor taken alone: after on_connect the message loop      *)
(* handles one ping-response after another, time.time() being read at each *)
(* of them.  The windows are deques of six places, so the states are       *)
(* finitely many without a bound on the number of messages.                *)
SampleEnds == {1, 2}
SamplePackets ==
    PingResponsePackets \cup {[name |-> "ping-response", when |-> 0, load |-> 0]}

Sample(data, end) ==
    /\ loop = "serving"
    /\ conn = "open"
    /\ LET r == on_packet(Self, data, end) IN
        /\ Commit(r)
        /\ loop' = IF r.exc THEN "crashed" ELSE loop
    /\ UNCHANGED acked

HealthNext ==
    \/ Connect
    \/ \E p \in SamplePackets : \E end \in SampleEnds : Sample(Obj(p), end)

HealthSpec == Init /\ [][HealthNext]_vars

(* The life of the health monitor thread taken alone: handshakes, the      *)
(* thread, the scheduler's disconnect, the peer's close and the end of the *)
(* message loop.  A started thread gets to run, and a message loop whose   *)
(* socket is closed ends.                                                  *)
MonitorNext ==
    \/ Connect
    \/ \E p \in HandshakePackets : Receive(Obj(p), 0)
    \/ Connected
    \/ \E force \in BOOLEAN : Disconnect(force)
    \/ \E i \in DOMAIN threads : RunThread(i)
    \/ PeerClose
    \/ LoopExit

MonitorSpec ==
    /\ Init
    /\ [][MonitorNext]_vars
    /\ WF_vars(\E i \in DOMAIN threads : RunThread(i))
    /\ WF_vars(Connected)
    /\ WF_vars(LoopExit)

-----------------------------------------------------------------------------
(* Properties.                                                             *)

TerminalPackets == {p \in SubmissionPackets : p.name \in TerminalNames}

AckPackets == {p \in SubmissionPackets : p.name = "submission-acknowledged"}

HandlerNames ==
    {"grading-begin", "grading-end", "compile-error", "compile-message", "batch-begin",
     "batch-end", "test-case-status", "internal-error", "submission-terminated",
     "submission-acknowledged", "ping-response", "supported-problems", "handshake"}

(* The data that are no object with a name the dispatch table knows.       *)
MalformedInbound ==
    {d \in Inbound :
        \/ d.json # "object"
        \/ ~Has(d.value, "name")
        \/ d.value.name \notin HandlerNames}

(* The Timer in _no_response_job runs and has not fired.                   *)
TimerArmed == \E i \in DOMAIN threads : threads[i] = TimerThread(_no_response_job)

KillFired ==
    \E i \in DOMAIN threads :
        /\ threads[i].target = "_kill_if_no_response"
        /\ threads[i].job = _no_response_job
        /\ threads[i].pc = "fired"

Serving == loop = "serving" /\ conn = "open"

(* C1: currentSubmission is absent before any dispatch, a submit(id) makes *)
(* it id, and handling a terminal lifecycle event (grading-end,            *)
(* compile-error, internal-error, submission-terminated) for the current   *)
(* id leaves it absent.                                                    *)
C1_CurrentSubmissionInterval ==
    /\ _no_response_job = 0 => ~Truthy(_working)
    /\ \A id \in SubmissionIds : submit(Self, id)._working = id
    /\ \A p \in TerminalPackets :
        (Serving /\ Truthy(_working) /\ p.submission_id = _working)
            => ~Truthy(on_packet(Self, Obj(p), 0)._working)

(* C2: submit on a session whose currentSubmission is non-absent sends     *)
(* nothing, keeps the id of the earlier submission and keeps the timer     *)
(* that is already there.                                                  *)
C2_SubmitWhileBusyFails ==
    [][\A id \in SubmissionIds :
        (Truthy(_working) /\ Submit(id))
            => /\ sent' = sent
               /\ _working' = _working
               /\ _no_response_job' = _no_response_job]_vars

(* C3: a submission-acknowledged whose id differs from the current         *)
(* submission changes nothing of the session: currentSubmission, the       *)
(* batch fields, the timer object and the started threads stay as they     *)
(* were, nothing is sent and the connection stays as it was.               *)
C3_WrongAckChangesNothing ==
    \A p \in AckPackets :
        (Serving /\ Truthy(_working) /\ p.submission_id # _working)
            => /\ on_packet(Self, Obj(p), 0) = Self
               /\ _no_response_job # 0

C3_Witness ==
    /\ acked = "wrong"
    /\ Truthy(_working)
    /\ _no_response_job # 0
    /\ loop = "serving"

(* C4: when get_related_submission_data yields no data, submit leaves the  *)
(* session idle: currentSubmission is not set, no timer is created and     *)
(* nothing is sent.                                                        *)
C4_NoDataLeavesIdle ==
    [][\A id \in SubmissionIds :
        (get_related_submission_data(id) = None /\ Submit(id))
            => /\ _working' = _working
               /\ _no_response_job' = _no_response_job
               /\ sent' = sent]_vars

(* C5: once submit(id) has created the acknowledgment timer, either the    *)
(* acknowledgment of id is handled or the deadline eventually fires:       *)
(* _kill_if_no_response runs for that timer and closes the connection.     *)
C5_DeadlineFires ==
    [](( _no_response_job # 0 /\ acked # "matched")
        => <>(acked = "matched" \/ (KillFired /\ conn = "closed")))

(* C6: handling the submission-acknowledged of the current submission     *)
(* disarms the timer submit made for it: the session holds no timer        *)
(* afterwards, and none that runs; and once that acknowledgment has been   *)
(* handled, _kill_if_no_response does not close the connection for the     *)
(* submission.                                                             *)
C6_AckDisarmsTimer ==
    /\ \A p \in AckPackets :
        (Serving /\ Truthy(_working) /\ _no_response_job # 0
                 /\ p.submission_id = _working)
            => LET r == on_packet(Self, Obj(p), 0) IN
               /\ r._no_response_job = 0
               /\ \A i \in DOMAIN r.threads :
                    r.threads[i].target = "_kill_if_no_response"
                        => r.threads[i].pc # "sleep"
    /\ acked = "matched" => (~TimerArmed /\ ~KillFired)

BadHandshakes ==
    {p \in HandshakePackets :
        \/ ~Has(p, "id")
        \/ ~Has(p, "key")
        \/ ~_authenticate(p.id, p.key)}

(* C7: a handshake that lacks id or key, or that _authenticate rejects,    *)
(* closes the connection and does nothing else: nothing is sent, identity, *)
(* capabilities and timeout keep their values, no thread is started and    *)
(* _connected is not called.                                               *)
C7_BadHandshakeCloses ==
    \A p \in BadHandshakes :
        Serving =>
            LET r == on_packet(Self, Obj(p), 0) IN
            /\ r.conn = "closed"
            /\ r.sent = sent
            /\ r.name = name
            /\ r._problems = _problems
            /\ r.problems = problems
            /\ r.executors = executors
            /\ r.timeout = timeout
            /\ r.threads = threads
            /\ r.connectedCalls = connectedCalls

C7_Witness ==
    /\ lastlog = "Malformed handshake"
    /\ conn = "closed"
    /\ name = None
    /\ sent = <<>>
    /\ threads = <<>>
    /\ timeout = InitialTimeout

(* What a handshake that went through leaves behind: r is the session     *)
(* on_handshake leaves when it began in the present state.                 *)
Authenticated(r, p) ==
    /\ r.name = p.id
    /\ Has(p, "problems") /\ r._problems = p.problems /\ IsPairs(p.problems)
    /\ r.problems = dict(p.problems)
    /\ Has(p, "executors") /\ r.executors = p.executors
    /\ r.timeout = LongPollTimeout
    /\ r.sent = Append(sent, "handshake-success")
    /\ r.threads = Append(threads, PingThread)
    /\ r.connectedCalls = connectedCalls + 1
    /\ r.conn = conn

(* C8: on a connection that has not authenticated yet, every handshake     *)
(* with an id and a key that authenticate leaves the session authenticated *)
(* and idle, with exactly one handshake-success sent, before any ping.     *)
C8_IdAndKeySuffice ==
    \A p \in HandshakePackets \ BadHandshakes :
        (Serving /\ threads = <<>>)
            => LET r == on_packet(Self, Obj(p), 0) IN
               /\ Authenticated(r, p)
               /\ Count(r.sent, "handshake-success") = 1
               /\ Count(r.sent, "ping") = 0
               /\ ~Truthy(r._working)

(* C9: data that is no object with a known name is given to on_malformed   *)
(* (which writes the "malformed json packet" record) and changes nothing   *)
(* else: currentSubmission, batch fields, health estimates, what was sent  *)
(* and the connection stay as they were.                                   *)
C9_MalformedRoutedAndInert ==
    [][\A d \in MalformedInbound :
        Receive(d, 0)
            => /\ lastlog' = "malformed json packet"
               /\ Self' = [Self EXCEPT !.lastlog = "malformed json packet"]
               /\ conn' = "open"
               /\ loop' = "serving"]_vars

(* C10: when the handling of a message raises, on_packet catches it        *)
(* (_packet_exception runs), the message loop goes on and the connection   *)
(* stays open, so the next message is read and dispatched.                 *)
C10_ExceptionContained ==
    /\ loop # "crashed"
    /\ \A d \in Inbound : \A end \in Clock(d) :
        (Serving /\ decode_and_dispatch(Self, d, end).exc)
            => LET r == on_packet(Self, d, end) IN
               /\ ~r.exc
               /\ r.lastlog = "packet processing exception"
               /\ r.conn = "open"

C10_Witness ==
    /\ lastlog = "packet processing exception"
    /\ loop = "serving"
    /\ conn = "open"

-----------------------------------------------------------------------------
(* Health estimates.                                                       *)

Mean(q) == Sum(q) \div Len(q)

(* The n most recent elements of q, in arrival order.                      *)
LastN(q, n) == IF Len(q) <= n THEN q ELSE SubSeq(q, Len(q) - n + 1, Len(q))

CompletePing(p) == Has(p, "when") /\ Has(p, "time") /\ Has(p, "load")

(* C11: after any sequence of ping-response messages each window holds at  *)
(* most six samples, latency and time_delta are the arithmetic means of    *)
(* the samples now in their windows, and a ping-response leaves in each    *)
(* window the six most recent samples in arrival order, its own sample     *)
(* last: end - when for the latency, (end + when) / 2 - time for the       *)
(* clock offset.                                                           *)
C11_WindowsHoldRecentMeans ==
    /\ Len(_ping_average) <= WindowLen
    /\ Len(_time_delta) <= WindowLen
    /\ _ping_average # <<>> => latency = <<Mean(_ping_average)>>
    /\ _time_delta # <<>> => time_delta = <<Mean(_time_delta)>>
    /\ \A p \in SamplePackets : \A end \in SampleEnds :
        (Serving /\ CompletePing(p))
            => LET r == on_packet(Self, Obj(p), end) IN
               /\ r._ping_average =
                    LastN(Append(_ping_average, (end - p.when) * Scale), WindowLen)
               /\ r._time_delta =
                    LastN(Append(_time_delta,
                                 ((end + p.when) * Scale) \div 2 - p.time * Scale),
                          WindowLen)
               /\ r.latency = <<Mean(r._ping_average)>>
               /\ r.time_delta = <<Mean(r._time_delta)>>

-----------------------------------------------------------------------------
(* The result sink.                                                        *)

(* The messages about the submission the session is working on.            *)
OfCurrent(p) == Has(p, "submission_id") /\ p.submission_id = _working

(* C12: while a submission is in flight, one test-case-status message for  *)
(* it forwards at most UPDATE_RATE_LIMIT notifications to the result sink, *)
(* and the terminal grading message (grading-end) for it is forwarded: the *)
(* result sink is called once.                                             *)
C12_ThrottledForwarding ==
    \A p \in SubmissionPackets :
        (Serving /\ _working # PyFalse /\ OfCurrent(p))
            => LET r == on_packet(Self, Obj(p), 0) IN
               /\ p.name = "test-case-status"
                    => r.postUpdateCalls - postUpdateCalls <= UPDATE_RATE_LIMIT
               /\ p.name = "grading-end"
                    => r.postUpdateCalls = postUpdateCalls + 1

-----------------------------------------------------------------------------
(* Disconnect.                                                             *)

(* C13: when the session has disconnected with a submission in flight      *)
(* (get_current_submission() is not None), _disconnected has been called,  *)
(* which tells the scheduler and takes the session off the registry; also  *)
(* when the handshake left the identity None.                              *)
C13_DisconnectNotifies ==
    (loop = "disconnected" /\ get_current_submission(Self) # None)
        => disconnectedCalls > 0

(* C14: once the session has disconnected, running on_disconnect again     *)
(* calls _disconnected no further time, and a thread of the session that   *)
(* can still run does nothing but end: it writes nothing, closes nothing   *)
(* and logs nothing.                                                       *)
C14_DisconnectIdempotentAndQuiet ==
    loop = "disconnected"
        => /\ on_disconnect(Self).disconnectedCalls = disconnectedCalls
           /\ \A i \in DOMAIN threads :
                Runnable(i)
                    => LET r == run(Self, i) IN
                       /\ r.threads[i].pc = "done"
                       /\ r.sent = sent
                       /\ r.lastlog = lastlog

(* C15: handling a terminal message for the submission in flight calls the *)
(* result sink once and leaves the session idle (working false, no current *)
(* submission), and a further terminal message for the same id does not    *)
(* call the result sink again.                                             *)
C15_OneTerminalNotification ==
    \A p \in TerminalPackets :
        (Serving /\ _working # PyFalse /\ OfCurrent(p))
            => LET r == on_packet(Self, Obj(p), 0) IN
               /\ r.postUpdateCalls = postUpdateCalls + 1
               /\ ~working(r)
               /\ get_current_submission(r) = None
               /\ \A q \in TerminalPackets :
                    q.submission_id = p.submission_id
                        => on_packet(r, Obj(q), 0).postUpdateCalls = r.postUpdateCalls

-----------------------------------------------------------------------------
(* Authentication.                                                         *)

IsHandshake(d) ==
    d.json = "object" /\ Has(d.value, "name") /\ d.value.name = "handshake"

(* C16: as long as no handshake has succeeded, load, the two windows and   *)
(* their estimates, the batch id and the current submission have their     *)
(* initial values, and no inbound message other than a handshake changes   *)
(* them.                                                                   *)
C16_OnlyHandshakeBeforeAuth ==
    connectedCalls = 0
        => /\ load = InitialLoad
           /\ _ping_average = <<>> /\ _time_delta = <<>>
           /\ latency = <<>> /\ time_delta = <<>>
           /\ batch_id = None
           /\ _working = PyFalse
           /\ \A d \in Inbound : \A end \in Clock(d) :
                (Serving /\ ~IsHandshake(d))
                    => LET r == on_packet(Self, d, end) IN
                       /\ r.load = load
                       /\ r._ping_average = _ping_average /\ r._time_delta = _time_delta
                       /\ r.latency = latency /\ r.time_delta = time_delta
                       /\ r.batch_id = batch_id
                       /\ r._working = _working

(* C17: once a handshake has succeeded, no inbound message, a second       *)
(* handshake with another id included, changes the identity, the problems  *)
(* or the executors, and none starts another health monitor thread.        *)
C17_IdentitySetOnce ==
    \A d \in Inbound : \A end \in Clock(d) :
        (Serving /\ connectedCalls > 0)
            => LET r == on_packet(Self, d, end) IN
               /\ r.name = name
               /\ r._problems = _problems
               /\ r.problems = problems
               /\ r.executors = executors
               /\ r.threads = threads

-----------------------------------------------------------------------------
(* The end of the health monitor loop.                                     *)

PingThreads == {i \in DOMAIN threads : threads[i].target = "_ping_thread"}

(* C18: when the session has disconnected after a successful handshake,    *)
(* every health monitor thread eventually ends.  With the stop signal set  *)
(* a thread that waits ends there, writing nothing and closing nothing; a  *)
(* thread that is about to ping sends at most that one ping and ends at    *)
(* its next wait.  A thread whose ping raised has closed the connection    *)
(* and stopped: it does not run again.                                     *)
C18_PingLoopTerminates ==
    /\ [](\A i \in PingThreads :
            /\ (_stop_ping /\ threads[i].pc = "wait")
                    => run(Self, i) = [Self EXCEPT !.threads[i].pc = "done"]
            /\ (_stop_ping /\ threads[i].pc = "ping")
                    => LET r == run(Self, i) IN
                       \/ /\ r.threads[i].pc = "failed"
                          /\ r.conn = "closed"
                          /\ r.sent = sent
                       \/ /\ r.threads[i].pc = "wait"
                          /\ r.sent = Append(sent, "ping")
                          /\ run(r, i) = [r EXCEPT !.threads[i].pc = "done"]
            /\ threads[i].pc = "failed" => (conn = "closed" /\ ~Runnable(i))
            /\ threads[i].pc = "done" => (_stop_ping /\ ~Runnable(i)))
    /\ (loop = "disconnected" /\ connectedCalls > 0)
            ~> (\A i \in PingThreads : threads[i].pc \in {"done", "failed"})

C18_Witness ==
    /\ loop = "disconnected"
    /\ connectedCalls > 0
    /\ _stop_ping
    /\ Count(sent, "ping") > 0
    /\ PingThreads # {}
    /\ \A i \in PingThreads : threads[i].pc = "done"

-----------------------------------------------------------------------------
(* What the scheduler sees.                                                *)

(* C19: after submit(id), for every id, working is true and                *)
(* get_current_submission() is id; in every state in which a submit has    *)
(* set _working the session reports itself busy with that id.              *)
C19_BusyForEveryId ==
    /\ _working # PyFalse
        => working(Self) /\ get_current_submission(Self) = _working
    /\ \A id \in SubmissionIds :
        Registered
            => LET r == submit(Self, id) IN
               working(r) /\ get_current_submission(r) = id

(* C20: the two windows hold equally many samples, and a ping-response     *)
(* either adds one sample to each window and sets latency, time_delta and  *)
(* load (when it carries when, time and load), or changes none of the      *)
(* five.                                                                   *)
C20_WindowsMoveTogether ==
    /\ Len(_ping_average) = Len(_time_delta)
    /\ \A p \in SamplePackets : \A end \in SampleEnds :
        Serving
            => LET r == on_packet(Self, Obj(p), end) IN
               IF CompletePing(p)
               THEN /\ r._ping_average # _ping_average
                    /\ r._time_delta # _time_delta
                    /\ Len(r._ping_average) = Len(r._time_delta)
                    /\ r.latency = <<Mean(r._ping_average)>>
                    /\ r.time_delta = <<Mean(r._time_delta)>>
                    /\ r.load = p.load
               ELSE /\ r._ping_average = _ping_average
                    /\ r._time_delta = _time_delta
                    /\ r.latency = latency
                    /\ r.time_delta = time_delta
                    /\ r.load = load

====
